---- MODULE Spec2Model ----
(***************************************************************************)
(* A model of the SAML Service Provider of saml-auth-test: the login       *)
(* initiation and the two assertion-consumer handlers                      *)
(* (SamlAuthService.process_assertion and app.saml_acs), with the token    *)
(* "minting" of TestService and app.py computed byte for byte.             *)
(*                                                                         *)
(* Python strings whose characters matter (NameIDs, e-mails, tokens) are   *)
(* sequences of Unicode code points; None is PyNone.  Fixed messages are   *)
(* TLA+ strings.  The external SAML toolkit (OneLogin_Saml2_Auth) is not   *)
(* part of the repository: what it reports for a response is an input.     *)
(***************************************************************************)
EXTENDS Integers, Sequences, FiniteSets, TLC

VARIABLES service, test_service, requests, authn_ids

vars == <<service, test_service, requests, authn_ids>>

(***************************************************************************)
(* Bounds of the model.                                                    *)
(***************************************************************************)
\* ACS requests (handler invocations) in one behaviour
MaxRequests == 2
\* login initiations in one behaviour, hence AuthnRequest IDs the toolkit generates
MaxLogins == 1

Slots == 1..MaxRequests
RequestIds == 1..MaxLogins
\* the InResponseTo of a SAMLResponse: <<id>>, or <<>> when it carries none
NoInResponseTo == <<>>
InResponseTos == {NoInResponseTo} \cup {<<id>> : id \in RequestIds}

(***************************************************************************)
(* Python values.                                                          *)
(***************************************************************************)
PyNone == << -1 >>

\* Python truthiness of an Optional[str]: None and "" are falsy
Truthy_NoneOnly(s) == s # PyNone

Truthy(s) == s # PyNone /\ s # <<>>

Colon == 58
STR_saml == <<115, 97, 109, 108>>
STR_access == <<97, 99, 99, 101, 115, 115>>
STR_refresh == <<114, 101, 102, 114, 101, 115, 104>>
STR_unknown == <<117, 110, 107, 110, 111, 119, 110>>
\* "3f9c60a5-353e-49bf-83b5-85f2a6073a0d"
TEST_USER_ID == <<51, 102, 57, 99, 54, 48, 97, 53, 45, 51, 53, 51, 101, 45, 52, 57,
                  98, 102, 45, 56, 51, 98, 53, 45, 56, 53, 102, 50, 97, 54, 48, 55,
                  51, 97, 48, 100>>

\* "a@x" and "é@x" (the second is not ASCII: its UTF-8 form is longer than the string)
EMAIL_a == <<97, 64, 120>>
EMAIL_e == <<233, 64, 120>>

\* what auth.get_nameid() may return
NameIds == {PyNone, <<>>, EMAIL_a, EMAIL_e}
\* what os.getenv("TEST_USER_EMAIL") may return
TestUserEmails == {PyNone, EMAIL_e}

(***************************************************************************)
(* str.encode(): UTF-8.                                                    *)
(***************************************************************************)
Utf8Char(cp) ==
    IF cp < 128 THEN <<cp>>
    ELSE IF cp < 2048 THEN <<192 + (cp \div 64), 128 + (cp % 64)>>
    ELSE <<224 + (cp \div 4096), 128 + ((cp \div 64) % 64), 128 + (cp % 64)>>

RECURSIVE Utf8Encode(_)
Utf8Encode(s) ==
    IF s = <<>> THEN <<>> ELSE Utf8Char(Head(s)) \o Utf8Encode(Tail(s))

(***************************************************************************)
(* base64.b64encode(...).decode(): the standard alphabet with = padding;   *)
(* the result is ASCII, so bytes.decode() keeps every code.                *)
(***************************************************************************)
B64Char(i) ==
    IF i < 26 THEN 65 + i
    ELSE IF i < 52 THEN 97 + (i - 26)
    ELSE IF i < 62 THEN 48 + (i - 52)
    ELSE IF i = 62 THEN 43
    ELSE 47

B64Pad == 61

RECURSIVE B64Encode(_)
B64Encode(b) ==
    IF Len(b) = 0 THEN <<>>
    ELSE IF Len(b) = 1 THEN
        <<B64Char(b[1] \div 4), B64Char((b[1] % 4) * 16), B64Pad, B64Pad>>
    ELSE IF Len(b) = 2 THEN
        <<B64Char(b[1] \div 4),
          B64Char((b[1] % 4) * 16 + (b[2] \div 16)),
          B64Char((b[2] % 16) * 4),
          B64Pad>>
    ELSE
        <<B64Char(b[1] \div 4),
          B64Char((b[1] % 4) * 16 + (b[2] \div 16)),
          B64Char((b[2] % 16) * 4 + (b[3] \div 64)),
          B64Char(b[3] % 64)>>
        \o B64Encode(SubSeq(b, 4, Len(b)))

(***************************************************************************)
(* TestService (test_service.py).                                          *)
(***************************************************************************)
\* f"{user_id}:{email}:{auth_type}:access:"
CreateTokens_NoEmail(user_id, email, auth_type) ==
    [access_token |->
        B64Encode(Utf8Encode(user_id \o <<Colon>> \o auth_type
                             \o <<Colon>> \o STR_access \o <<Colon>>)),
     refresh_token |->
        B64Encode(Utf8Encode(user_id \o <<Colon>> \o auth_type
                             \o <<Colon>> \o STR_refresh))]

CreateTokens(user_id, email, auth_type) ==
    [access_token |->
        B64Encode(Utf8Encode(user_id \o <<Colon>> \o email \o <<Colon>> \o auth_type
                             \o <<Colon>> \o STR_access \o <<Colon>>)),
     refresh_token |->
        B64Encode(Utf8Encode(user_id \o <<Colon>> \o email \o <<Colon>> \o auth_type
                             \o <<Colon>> \o STR_refresh))]

\* no user: get_auth_user returns None
NoUser == [found |-> FALSE, email |-> PyNone, id |-> PyNone]

GetAuthUser(ts, email) ==
    IF email = ts.test_user_email
    THEN [found |-> TRUE, email |-> email, id |-> TEST_USER_ID]
    ELSE NoUser

(***************************************************************************)
(* SamlAuthService.__init__: the configuration read from the environment.  *)
(***************************************************************************)
\* os.getenv("SAML_IDP_CERT"): PEM text with "\n" escapes, as app.py expects it
IdpCerts == {"PEM-escaped"}

SamlAuthServiceInit(cert) ==
    [sp_entity_id |-> "https://sp.example/metadata",
     acs_url |-> "https://sp.example/acs",
     idp_entity_id |-> "https://idp.example/metadata",
     idp_sso_url |-> "https://idp.example/sso",
     idp_cert |-> cert]

TestServiceInit(email) == [test_user_email |-> email]

\* the service object after self._build_saml_settings(): the method reads the
\* five fields into a new dict and assigns no attribute of self
SelfAfterBuildSamlSettings_NormalisingCert(svc) ==
    [svc EXCEPT !.idp_cert = IF @ = "PEM-escaped" THEN "PEM" ELSE @]

SelfAfterBuildSamlSettings(svc) == svc

(***************************************************************************)
(* The toolkit's report on one response, as the handlers read it:          *)
(* process_response() may raise, get_errors(), is_authenticated(),         *)
(* get_nameid().                                                           *)
(***************************************************************************)
ToolkitErrorLists == {<<>>, <<"invalid_response">>, <<"invalid_binding">>}

\* the reports that differ in something a handler reads: process_response raised;
\* errors; no errors but not authenticated; authenticated, with each NameID
ToolkitOutcomes ==
    {[raised |-> TRUE, errors |-> <<>>, authenticated |-> FALSE, nameid |-> PyNone]}
    \cup [raised : {FALSE}, errors : ToolkitErrorLists \ {<<>>},
          authenticated : {FALSE}, nameid : {PyNone}]
    \cup [raised : {FALSE}, errors : {<<>>}, authenticated : {FALSE}, nameid : {PyNone}]
    \cup [raised : {FALSE}, errors : {<<>>}, authenticated : {TRUE}, nameid : NameIds]

(***************************************************************************)
(* HTTP responses.                                                         *)
(***************************************************************************)
HTTP_400_BAD_REQUEST == 400
HTTP_401_UNAUTHORIZED == 401
HTTP_200_OK == 200

\* f"...{args}": the fixed text and the values formatted into it
FormatStr(text, args) == [text |-> text, args |-> args]

HTTPException(status_code, detail) ==
    [status |-> status_code, body |-> [detail |-> detail]]

\* an exception no handler catches: the framework answers 500
UnhandledException ==
    [status |-> 500, body |-> [detail |-> "Internal Server Error"]]

NoResponse == [status |-> 0, body |-> [detail |-> "no response"]]

(***************************************************************************)
(* One ACS handler invocation.                                             *)
(***************************************************************************)
IdleRequest ==
    [pc |-> "idle", entry |-> "none",
     form |-> [has_response |-> FALSE, in_response_to |-> NoInResponseTo],
     after_accept |-> FALSE,
     steps |-> <<>>, errors |-> <<>>, authenticated |-> FALSE, nameid |-> PyNone,
     email |-> PyNone, user |-> NoUser, response |-> NoResponse, printed |-> <<>>]

\* the form of a POST: with or without a SAMLResponse field
Forms ==
    {[has_response |-> FALSE, in_response_to |-> NoInResponseTo]}
    \cup [has_response : {TRUE}, in_response_to : InResponseTos]

\* history kept for the properties, not by the program: a response carrying the
\* InResponseTo of this form has already been answered with HTTP 200
AlreadyAccepted(form) ==
    /\ form.has_response
    /\ form.in_response_to # NoInResponseTo
    /\ \E q \in Slots :
        /\ requests[q].pc = "done"
        /\ requests[q].response.status = HTTP_200_OK
        /\ requests[q].form.in_response_to = form.in_response_to

(***************************************************************************)
(* SamlAuthService.process_assertion, from the resumption after            *)
(* `await request.form()` to its return or raise.  req is the invocation   *)
(* so far, out the toolkit's report.  steps lists the calls made, in       *)
(* order; a field the handler never read keeps its initial value.          *)
(***************************************************************************)
ProcessAssertionAfterForm(ts, req, out) ==
    LET s0 == [req EXCEPT !.pc = "done", !.steps = <<"form">>] IN
    IF ~req.form.has_response THEN
        [s0 EXCEPT !.response = HTTPException(HTTP_400_BAD_REQUEST,
            [error |-> "Missing SAML response",
             message |-> "SAML response not found in form data."])]
    ELSE IF out.raised THEN
        [s0 EXCEPT !.steps = Append(@, "process_response"),
                   !.response = UnhandledException]
    ELSE
    LET s1 == [s0 EXCEPT !.steps = @ \o <<"process_response", "get_errors">>,
                         !.errors = out.errors] IN
    IF out.errors # <<>> THEN
        [s1 EXCEPT !.printed = Append(@, FormatStr("[SAML] Processing errors:", <<out.errors>>)),
                   !.response = HTTPException(HTTP_400_BAD_REQUEST,
                        [error |-> "SAML processing failed", details |-> out.errors])]
    ELSE
    LET s2 == [s1 EXCEPT !.steps = Append(@, "is_authenticated"),
                         !.authenticated = out.authenticated] IN
    IF ~out.authenticated THEN
        [s2 EXCEPT !.response = HTTPException(HTTP_401_UNAUTHORIZED,
            [error |-> "SAML authentication failed",
             message |-> "User could not be authenticated through the SAML response."])]
    ELSE
    LET s3 == [s2 EXCEPT !.steps = Append(@, "get_nameid"),
                         !.nameid = out.nameid, !.email = out.nameid] IN
    IF ~Truthy(s3.email) THEN
        [s3 EXCEPT !.response = HTTPException(HTTP_400_BAD_REQUEST,
            [error |-> "Invalid SAML response",
             message |-> "NameID (email) not found in the SAML assertion."])]
    ELSE
    LET user == GetAuthUser(ts, s3.email)
        s4 == [s3 EXCEPT !.printed = Append(@, FormatStr("[SAML] Authenticated user: ", <<s3.email>>)),
                         !.steps = Append(@, "get_auth_user"),
                         !.user = user] IN
    IF ~user.found THEN
        [s4 EXCEPT !.response = HTTPException(HTTP_401_UNAUTHORIZED,
            [error |-> "Unauthorized user",
             message |-> "User account not found in the application."])]
    ELSE
    LET tokens == CreateTokens(user.id, user.email, STR_saml) IN
        [s4 EXCEPT !.steps = Append(@, "create_tokens"),
                   !.printed = Append(@, FormatStr("[SAML] Authentication successful", <<>>)),
                   !.response = [status |-> HTTP_200_OK,
                                 body |-> [access_token |-> tokens.access_token,
                                           refresh_token |-> tokens.refresh_token,
                                           token_type |-> "bearer"]]]

(***************************************************************************)
(* app.saml_acs, from the resumption after `await request.form()`.         *)
(***************************************************************************)
\* base64.b64encode(f"{email}:access".encode()).decode(), and ":refresh"
AppFakeTokens(email) ==
    [access_token |-> B64Encode(Utf8Encode(email \o <<Colon>> \o STR_access)),
     refresh_token |-> B64Encode(Utf8Encode(email \o <<Colon>> \o STR_refresh))]

SamlAcsAfterForm(req, out) ==
    LET s0 == [req EXCEPT !.pc = "done", !.steps = <<"form">>] IN
    IF ~req.form.has_response THEN
        [s0 EXCEPT !.response = HTTPException(HTTP_400_BAD_REQUEST,
            FormatStr("Missing SAMLResponse in form data", <<>>))]
    ELSE IF out.raised THEN
        [s0 EXCEPT !.steps = Append(@, "process_response"),
                   !.response = UnhandledException]
    ELSE
    LET s1 == [s0 EXCEPT !.steps = @ \o <<"process_response", "get_errors">>,
                         !.errors = out.errors] IN
    IF out.errors # <<>> THEN
        [s1 EXCEPT !.printed = Append(@, FormatStr("SAML Errors:", <<out.errors>>)),
                   !.response = HTTPException(HTTP_400_BAD_REQUEST,
                        FormatStr("SAML processing failed: ", <<out.errors>>))]
    ELSE
    LET s2 == [s1 EXCEPT !.steps = Append(@, "is_authenticated"),
                         !.authenticated = out.authenticated] IN
    IF ~out.authenticated THEN
        [s2 EXCEPT !.response = HTTPException(HTTP_401_UNAUTHORIZED,
            FormatStr("SAML authentication failed", <<>>))]
    ELSE
    LET email == IF Truthy(out.nameid) THEN out.nameid ELSE STR_unknown
        tokens == AppFakeTokens(email) IN
        [s2 EXCEPT !.steps = @ \o <<"get_nameid", "b64encode">>,
                   !.nameid = out.nameid,
                   !.email = email,
                   !.printed = Append(@, FormatStr("Authenticated via SAML: ", <<email>>)),
                   !.response = [status |-> HTTP_200_OK,
                                 body |-> [message |-> "SAML authentication successful",
                                           email |-> email,
                                           access_token |-> tokens.access_token,
                                           refresh_token |-> tokens.refresh_token,
                                           token_type |-> "bearer"]]]

(***************************************************************************)
(* The state machine.                                                      *)
(***************************************************************************)
Init ==
    /\ \E cert \in IdpCerts : service = SamlAuthServiceInit(cert)
    /\ \E email \in TestUserEmails : test_service = TestServiceInit(email)
    /\ requests = [r \in Slots |-> IdleRequest]
    /\ authn_ids = {}

\* slots are taken in order of arrival
NextSlot(r) ==
    /\ requests[r].pc = "idle"
    /\ \A q \in Slots : q < r => requests[q].pc # "idle"

\* SamlAuthService.initiate_login: auth.login() makes an AuthnRequest with a new
\* ID and returns the redirect URL that carries it; nothing about it is kept
InitiateLogin ==
    /\ Cardinality(authn_ids) < MaxLogins
    /\ \E id \in RequestIds \ authn_ids : authn_ids' = authn_ids \cup {id}
    /\ service' = SelfAfterBuildSamlSettings(service)
    /\ UNCHANGED <<test_service, requests>>

\* app.saml_login (GET /login)
SamlLogin ==
    /\ Cardinality(authn_ids) < MaxLogins
    /\ \E id \in RequestIds \ authn_ids : authn_ids' = authn_ids \cup {id}
    /\ UNCHANGED <<service, test_service, requests>>

\* process_assertion up to `await request.form()`
ProcessAssertionStart(r) ==
    /\ NextSlot(r)
    /\ \E form \in Forms :
        requests' = [requests EXCEPT ![r] =
            [@ EXCEPT !.pc = "awaiting_form", !.entry = "service", !.form = form,
                      !.after_accept = AlreadyAccepted(form),
                      !.printed = <<FormatStr("[ACS] Received POST /acs (SAML Response)", <<>>)>>]]
    /\ UNCHANGED <<service, test_service, authn_ids>>

\* process_assertion from the await to the end
ProcessAssertionResume(r) ==
    /\ requests[r].pc = "awaiting_form"
    /\ requests[r].entry = "service"
    /\ \E out \in ToolkitOutcomes :
        requests' = [requests EXCEPT ![r] = ProcessAssertionAfterForm(test_service, @, out)]
    /\ service' = IF requests[r].form.has_response
                  THEN SelfAfterBuildSamlSettings(service) ELSE service
    /\ UNCHANGED <<test_service, authn_ids>>

\* saml_acs up to `await request.form()`
SamlAcsStart(r) ==
    /\ NextSlot(r)
    /\ \E form \in Forms :
        requests' = [requests EXCEPT ![r] =
            [@ EXCEPT !.pc = "awaiting_form", !.entry = "app", !.form = form,
                      !.after_accept = AlreadyAccepted(form)]]
    /\ UNCHANGED <<service, test_service, authn_ids>>

\* saml_acs from the await to the end
SamlAcsResume(r) ==
    /\ requests[r].pc = "awaiting_form"
    /\ requests[r].entry = "app"
    /\ \E out \in ToolkitOutcomes :
        requests' = [requests EXCEPT ![r] = SamlAcsAfterForm(@, out)]
    /\ UNCHANGED <<service, test_service, authn_ids>>

\* the client goes away while the handler waits for the form: the task is
\* cancelled at its await and never resumes
Abort(r) ==
    /\ requests[r].pc = "awaiting_form"
    /\ requests' = [requests EXCEPT ![r].pc = "aborted"]
    /\ UNCHANGED <<service, test_service, authn_ids>>

Next ==
    \/ InitiateLogin
    \/ SamlLogin
    \/ \E r \in Slots : ProcessAssertionStart(r)
    \/ \E r \in Slots : ProcessAssertionResume(r)
    \/ \E r \in Slots : SamlAcsStart(r)
    \/ \E r \in Slots : SamlAcsResume(r)
    \/ \E r \in Slots : Abort(r)

Spec == Init /\ [][Next]_vars

\* the deployment in which POST /acs and GET /login are served by the
\* SamlAuthService singleton alone
NextService ==
    \/ InitiateLogin
    \/ \E r \in Slots : ProcessAssertionStart(r)
    \/ \E r \in Slots : ProcessAssertionResume(r)
    \/ \E r \in Slots : Abort(r)

SpecService == Init /\ [][NextService]_vars

(***************************************************************************)
(* Reading a token back: the inverse of the encodings above, written       *)
(* independently of them, and the fields of a colon-joined payload.        *)
(***************************************************************************)
B64Index(c) ==
    IF c >= 65 /\ c <= 90 THEN c - 65
    ELSE IF c >= 97 /\ c <= 122 THEN c - 71
    ELSE IF c >= 48 /\ c <= 57 THEN c + 4
    ELSE IF c = 43 THEN 62
    ELSE 63

RECURSIVE B64Decode(_)
B64Decode(t) ==
    IF Len(t) < 4 THEN <<>>
    ELSE
        LET n1 == B64Index(t[1])
            n2 == B64Index(t[2])
            n3 == B64Index(t[3])
            n4 == B64Index(t[4])
            rest == B64Decode(SubSeq(t, 5, Len(t)))
        IN  IF t[3] = B64Pad THEN <<n1 * 4 + (n2 \div 16)>>
            ELSE IF t[4] = B64Pad
                 THEN <<n1 * 4 + (n2 \div 16), (n2 % 16) * 16 + (n3 \div 4)>>
            ELSE <<n1 * 4 + (n2 \div 16), (n2 % 16) * 16 + (n3 \div 4), (n3 % 4) * 64 + n4>>
                 \o rest

RECURSIVE Utf8Decode(_)
Utf8Decode(b) ==
    IF b = <<>> THEN <<>>
    ELSE IF b[1] < 128 THEN <<b[1]>> \o Utf8Decode(Tail(b))
    ELSE IF b[1] < 224 /\ Len(b) >= 2
         THEN <<(b[1] - 192) * 64 + (b[2] - 128)>> \o Utf8Decode(SubSeq(b, 3, Len(b)))
    ELSE IF Len(b) >= 3
         THEN <<(b[1] - 224) * 4096 + (b[2] - 128) * 64 + (b[3] - 128)>>
              \o Utf8Decode(SubSeq(b, 4, Len(b)))
    ELSE <<>>

TokenPayload(token) == Utf8Decode(B64Decode(token))

\* the fields of a payload, split at every colon
RECURSIVE SplitFrom(_, _, _)
SplitFrom(s, i, cur) ==
    IF i > Len(s) THEN <<cur>>
    ELSE IF s[i] = Colon THEN <<cur>> \o SplitFrom(s, i + 1, <<>>)
    ELSE SplitFrom(s, i + 1, Append(cur, s[i]))

PayloadFields(token) == SplitFrom(TokenPayload(token), 1, <<>>)

\* a field that is a decimal number, as an issued-at or expiry time would be
IsTimestamp(f) == f # <<>> /\ \A i \in DOMAIN f : f[i] >= 48 /\ f[i] <= 57

RECURSIVE DecimalValue(_)
DecimalValue(f) ==
    IF f = <<>> THEN 0
    ELSE 10 * DecimalValue(SubSeq(f, 1, Len(f) - 1)) + (f[Len(f)] - 48)

Timestamps(token) ==
    LET fs == PayloadFields(token)
    IN  SelectSeq(fs, IsTimestamp)

\* the expiry a token carries: its last timestamp (after the issued-at), or -1
ExpiryOf(token) ==
    LET ts == Timestamps(token)
    IN  IF Len(ts) >= 2 THEN DecimalValue(ts[Len(ts)]) ELSE -1

(***************************************************************************)
(* Vocabulary of the properties.                                           *)
(***************************************************************************)
Done(r) == requests[r].pc = "done"
IsService(r) == requests[r].entry = "service"
IsApp(r) == requests[r].entry = "app"
Did(r, step) == \E i \in DOMAIN requests[r].steps : requests[r].steps[i] = step
LastStep(r) == requests[r].steps[Len(requests[r].steps)]
Succeeded(r) == Done(r) /\ requests[r].response.status = HTTP_200_OK
\* the response the caller receives holds a token pair
GotTokens(r) == "access_token" \in DOMAIN requests[r].response.body
AccessToken(r) == requests[r].response.body.access_token
RefreshToken(r) == requests[r].response.body.refresh_token
IsErrorStatus(st) == st \in {HTTP_400_BAD_REQUEST, HTTP_401_UNAUTHORIZED}
NameIdPresent(r) == requests[r].nameid # PyNone /\ Len(requests[r].nameid) > 0
HasInResponseTo(r) == requests[r].form.in_response_to # NoInResponseTo
SameInResponseTo(r1, r2) ==
    /\ HasInResponseTo(r1)
    /\ requests[r1].form.has_response /\ requests[r2].form.has_response
    /\ requests[r1].form.in_response_to = requests[r2].form.in_response_to
IsPrefix(s, t) == Len(s) <= Len(t) /\ SubSeq(t, 1, Len(s)) = s

\* the order in which process_assertion makes its calls
ServiceOrder ==
    <<"form", "process_response", "get_errors", "is_authenticated",
      "get_nameid", "get_auth_user", "create_tokens">>

(***************************************************************************)
(* C1.  process_assertion is fail-closed and ordered: it makes its calls   *)
(* in the fixed order, returns tokens only when the form held a            *)
(* SAMLResponse, the toolkit reported no errors and an authenticated       *)
(* user, the NameID was non-empty and the user lookup found a principal;   *)
(* and the first check that fails is the last call the request makes: it   *)
(* ends with HTTP 400 or 401 and create_tokens is never called.            *)
(***************************************************************************)
C1_FailClosedOrdered ==
    \A r \in Slots : IsService(r) =>
        LET q == requests[r] IN
        /\ IsPrefix(q.steps, ServiceOrder)
        /\ ~Done(r) => (~GotTokens(r) /\ q.response = NoResponse /\ q.steps = <<>>)
        /\ GotTokens(r) <=> Succeeded(r)
        /\ Did(r, "create_tokens") <=> Succeeded(r)
        /\ Succeeded(r) <=> (Done(r) /\ q.steps = ServiceOrder)
        /\ Succeeded(r) =>
            /\ q.form.has_response
            /\ q.errors = <<>>
            /\ q.authenticated
            /\ NameIdPresent(r)
            /\ q.user.found
        /\ (Done(r) /\ ~q.form.has_response) =>
            (q.steps = <<"form">> /\ q.response.status = HTTP_400_BAD_REQUEST)
        /\ (Did(r, "get_errors") /\ q.errors # <<>>) =>
            (LastStep(r) = "get_errors" /\ q.response.status = HTTP_400_BAD_REQUEST)
        /\ (Did(r, "is_authenticated") /\ ~q.authenticated) =>
            (LastStep(r) = "is_authenticated" /\ q.response.status = HTTP_401_UNAUTHORIZED)
        /\ (Did(r, "get_nameid") /\ ~NameIdPresent(r)) =>
            (LastStep(r) = "get_nameid" /\ q.response.status = HTTP_400_BAD_REQUEST)
        /\ (Did(r, "get_auth_user") /\ ~q.user.found) =>
            (LastStep(r) = "get_auth_user" /\ q.response.status = HTTP_401_UNAUTHORIZED)

\* one service request was issued tokens while another stopped at the user lookup
C1_Witness ==
    \E r1, r2 \in Slots :
        /\ IsService(r1) /\ Succeeded(r1) /\ GotTokens(r1)
        /\ IsService(r2) /\ Done(r2) /\ LastStep(r2) = "get_auth_user"
        /\ requests[r2].response.status = HTTP_401_UNAUTHORIZED

(***************************************************************************)
(* C2.  Replay protection: once a response carrying an InResponseTo ID     *)
(* has been accepted, a response submitted later with the same ID is       *)
(* rejected and yields no tokens (stated for IDs a login has issued).      *)
(***************************************************************************)
IssuedByLogin(r) ==
    /\ HasInResponseTo(r)
    /\ requests[r].form.in_response_to[1] \in authn_ids

C2_ReplayRejected ==
    \A r1, r2 \in Slots :
        ( /\ r1 # r2
          /\ IssuedByLogin(r1)
          /\ Succeeded(r1)
          /\ SameInResponseTo(r1, r2)
          /\ requests[r2].after_accept
          /\ Done(r2) )
        => (~Succeeded(r2) /\ ~GotTokens(r2))

(***************************************************************************)
(* C3.  At most one of two concurrently handled process_assertion          *)
(* requests that reference the same issued request ID is issued tokens.    *)
(***************************************************************************)
\* neither request was submitted after a response with its InResponseTo had
\* been accepted: when both end accepted, each waited for its form while the
\* other was being handled
Concurrent(r1, r2) ==
    /\ r1 # r2
    /\ requests[r1].pc # "idle" /\ requests[r2].pc # "idle"
    /\ ~requests[r1].after_accept
    /\ ~requests[r2].after_accept

C3_AtMostOnceConcurrent ==
    \A r1, r2 \in Slots :
        ( /\ IsService(r1) /\ IsService(r2)
          /\ Concurrent(r1, r2)
          /\ IssuedByLogin(r1)
          /\ SameInResponseTo(r1, r2) )
        => ~(Succeeded(r1) /\ Succeeded(r2))

(***************************************************************************)
(* C4.  Correlation: a response carrying InResponseTo yields tokens only   *)
(* if that ID was issued by an earlier login initiation.                   *)
(***************************************************************************)
C4_OnlyIssuedIdsAccepted ==
    \A r \in Slots :
        (Succeeded(r) /\ HasInResponseTo(r))
        => requests[r].form.in_response_to[1] \in authn_ids

(***************************************************************************)
(* C5.  Unknown principal: on both ACS handlers, when the directory has no *)
(* user for the authenticated NameID the caller gets HTTP 401 and no       *)
(* tokens.                                                                 *)
(***************************************************************************)
C5_UnknownPrincipalRejected ==
    \A r \in Slots :
        ( /\ Done(r) /\ Did(r, "get_nameid") /\ NameIdPresent(r)
          /\ ~GetAuthUser(test_service, requests[r].nameid).found )
        => ( /\ requests[r].response.status = HTTP_401_UNAUTHORIZED
             /\ ~GotTokens(r) )

(***************************************************************************)
(* C6.  Missing subject identifier: on both ACS handlers, an               *)
(* authenticated response whose NameID is absent or empty is rejected      *)
(* with an error and gets no tokens.                                       *)
(***************************************************************************)
C6_MissingNameIdRejected ==
    \A r \in Slots :
        (Done(r) /\ Did(r, "get_nameid") /\ ~NameIdPresent(r))
        => ( /\ IsErrorStatus(requests[r].response.status)
             /\ ~GotTokens(r) )

(***************************************************************************)
(* C7.  Every issued token carries an issued-at time and an expiry, and    *)
(* the access token expires before the refresh token.                      *)
(***************************************************************************)
C7_TokensCarryExpiry ==
    \A r \in Slots : GotTokens(r) =>
        /\ Len(Timestamps(AccessToken(r))) >= 2
        /\ Len(Timestamps(RefreshToken(r))) >= 2
        /\ ExpiryOf(AccessToken(r)) < ExpiryOf(RefreshToken(r))

FailedValidation(r) == Done(r) /\ Did(r, "get_errors") /\ requests[r].errors # <<>>

C9_SameResponseForAnyReason ==
    \A r1, r2 \in Slots :
        ( /\ FailedValidation(r1) /\ FailedValidation(r2)
          /\ requests[r1].entry = requests[r2].entry )
        => requests[r1].response = requests[r2].response

(***************************************************************************)
(* C10.  No partial commit: a step that aborts a request, or ends it with  *)
(* anything but success, leaves the shared state (the service's            *)
(* configuration fields, the user directory's configuration) as it was,    *)
(* and such a request holds no tokens; a request of process_assertion      *)
(* holds tokens only when every check has passed.                          *)
(***************************************************************************)
EndsWithoutSuccess(r) ==
    /\ requests[r].pc = "awaiting_form"
    /\ requests'[r].pc \in {"done", "aborted"}
    /\ requests'[r].response.status # HTTP_200_OK

C10_NoPartialCommit ==
    [][ \A r \in Slots :
          /\ EndsWithoutSuccess(r) =>
                /\ service' = service
                /\ test_service' = test_service
                /\ "access_token" \notin DOMAIN requests'[r].response.body
          /\ (requests'[r].entry = "service"
                /\ "access_token" \in DOMAIN requests'[r].response.body) =>
                /\ requests'[r].steps = ServiceOrder
                /\ requests'[r].response.status = HTTP_200_OK ]_vars

\* one request was aborted at its await and a process_assertion request failed
\* validation, and the service still holds the configuration it was built with
C10_Witness ==
    \E r1, r2 \in Slots :
        /\ requests[r1].pc = "aborted"
        /\ IsService(r2) /\ FailedValidation(r2)
        /\ service \in {SamlAuthServiceInit(c) : c \in IdpCerts}

====
